---- MODULE Spec2Model ----
(***************************************************************************)
(* Model of the resume / job-description matching engine of                *)
(* ResumeParser.py: the three-node graph (candidate_json, jd_json,         *)
(* match_score) and the scoring helpers it calls.                          *)
(*                                                                         *)
(* Numbers.  Python floats are modelled by exact scaled integers:          *)
(*   scores            thousandths   (1.0  = 1000)                         *)
(*   final_match_score millionths    (0.30 = 300000)                       *)
(*   years             hundredths    (2.25 = 225)                          *)
(*   months            half-months   (the 0.5 * months of line 155)        *)
(* Text.  A Python str is a sequence of one-character strings.             *)
(***************************************************************************)
EXTENDS Integers, Sequences, FiniteSets, TLC

VARIABLES
    pc,      \* the graph node about to run, or where a direct call stands
    state,   \* the graph State: a function from the keys set so far
    sent,    \* the requests issued to the language model so far
    call,    \* the entry point: app.invoke, or one helper with its arguments
    ret      \* what a direct call returned

vars == <<pc, state, sent, call, ret>>

(***************************************************************************)
(* Bounds of the model.                                                    *)
(***************************************************************************)
MaxParts == 2       \* a text is a concatenation of at most MaxParts fragments
MaxExp == 2         \* experience records per candidate in a direct call
MaxYears == 4       \* effective years handed to experience_match, in years

(***************************************************************************)
(* Python str helpers.                                                     *)
(***************************************************************************)
UpperChars == <<"A","B","C","D","E","F","G","H","I","J","K","L","M",
                "N","O","P","Q","R","S","T","U","V","W","X","Y","Z">>

LowerChars == <<"a","b","c","d","e","f","g","h","i","j","k","l","m",
                "n","o","p","q","r","s","t","u","v","w","x","y","z">>

Digits == <<"0","1","2","3","4","5","6","7","8","9">>

Whitespace == {" ", "\t", "\n"}

\* str.lower() on one character
lower_char(c) ==
    IF \E i \in 1..26 : UpperChars[i] = c
    THEN LowerChars[CHOOSE i \in 1..26 : UpperChars[i] = c]
    ELSE c

\* str.lower()
lower(s) == [i \in 1..Len(s) |-> lower_char(s[i])]

\* str.strip(): drop leading and trailing whitespace
strip(s) ==
    LET keep == {i \in 1..Len(s) : s[i] \notin Whitespace}
    IN  IF keep = {} THEN <<>>
        ELSE LET lo == CHOOSE i \in keep : \A j \in keep : i <= j
                 hi == CHOOSE i \in keep : \A j \in keep : j <= i
             IN  SubSeq(s, lo, hi)

\* x in t (substring test)
Contains(t, x) ==
    \E i \in 0..(Len(t) - Len(x)) : SubSeq(t, i + 1, i + Len(x)) = x

\* c.isdigit()
isdigit(c) == \E i \in 1..10 : Digits[i] = c

digit_value(c) == (CHOOSE i \in 1..10 : Digits[i] = c) - 1

\* [c for c in s if c.isdigit()]
digits_of(s) == SelectSeq(s, isdigit)

\* int("".join(ds)) for a non-empty run of digit characters
RECURSIVE int_of(_)
int_of(ds) ==
    IF Len(ds) = 0 THEN 0
    ELSE 10 * int_of(SubSeq(ds, 1, Len(ds) - 1)) + digit_value(ds[Len(ds)])

\* round(n / d) to the nearest integer, an exact tie going to the even one
RoundHalfEven(n, d) ==
    LET q == n \div d
        r == n % d
    IN  IF 2 * r < d THEN q
        ELSE IF 2 * r > d THEN q + 1
        ELSE IF q % 2 = 0 THEN q ELSE q + 1

(***************************************************************************)
(* normalize_degree: the synonym lists of lines 65-71.                     *)
(***************************************************************************)
BachelorSynonyms ==
    { <<"b",".","t","e","c","h">>,
      <<"b","t","e","c","h">>,
      <<"b"," ","t","e","c","h">>,
      <<"b",".","e">>,
      <<"b","e">>,
      <<"b","a","c","h","e","l","o","r">> }

MasterSynonyms ==
    { <<"m",".","t","e","c","h">>,
      <<"m","t","e","c","h">>,
      <<"m"," ","t","e","c","h">>,
      <<"m",".","e">>,
      <<"m","e">>,
      <<"m","a","s","t","e","r">>,
      <<"m","s","c">>,
      <<"m","s">> }

PhdSynonyms ==
    { <<"p","h","d">>,
      <<"p","h",".","d">>,
      <<"d","o","c","t","o","r">>,
      <<"d","o","c","t","o","r","a","t","e">>,
      <<"d","o","c","t","o","r","a","l">> }

DiplomaSynonym == <<"d","i","p","l","o","m","a">>

\* a mutant: the phd list is consulted before the bachelor and master lists
normalize_degree_phd_first(text) ==
    IF text = <<>> THEN "unknown"
    ELSE LET t == lower(text)
         IN  IF \E x \in PhdSynonyms : Contains(t, x) THEN "phd"
             ELSE IF \E x \in BachelorSynonyms : Contains(t, x) THEN "bachelor"
             ELSE IF \E x \in MasterSynonyms : Contains(t, x) THEN "master"
             ELSE IF Contains(t, DiplomaSynonym) THEN "diploma"
             ELSE "unknown"

normalize_degree(text) ==
    IF text = <<>> THEN "unknown"
    ELSE LET t == lower(text)
         IN  IF \E x \in BachelorSynonyms : Contains(t, x) THEN "bachelor"
             ELSE IF \E x \in MasterSynonyms : Contains(t, x) THEN "master"
             ELSE IF \E x \in PhdSynonyms : Contains(t, x) THEN "phd"
             ELSE IF Contains(t, DiplomaSynonym) THEN "diploma"
             ELSE "unknown"

(***************************************************************************)
(* compute_field_relevance                                                 *)
(***************************************************************************)
RELEVANT_FIELDS ==
    { <<"c","o","m","p","u","t","e","r">>,
      <<"c","s">>,
      <<"c","s","e">>,
      <<"i","t">>,
      <<"i","n","f","o","r","m","a","t","i","o","n"," ","t","e","c","h","n","o","l","o","g","y">>,
      <<"a","i">>,
      <<"m","l">>,
      <<"d","a","t","a">>,
      <<"d","a","t","a"," ","s","c","i","e","n","c","e">>,
      <<"d","s">>,
      <<"e","c","e">>,
      <<"e","e","e">>,
      <<"e","l","e","c","t","r","o","n","i","c","s">>,
      <<"c","s","b","s">> }

compute_field_relevance(candidate_stream, jd_field_req) ==
    IF jd_field_req = <<>> \/ strip(jd_field_req) = <<>> THEN 1000
    ELSE LET cand == lower(candidate_stream)
         IN  IF \E term \in RELEVANT_FIELDS : Contains(cand, term) THEN 900
             ELSE 500

(***************************************************************************)
(* degree_match                                                            *)
(***************************************************************************)
\* lines 98-107
level_score(cand_level, jd_level) ==
    IF cand_level = jd_level THEN 1000
    ELSE IF cand_level = "master" /\ jd_level = "bachelor" THEN 1000
    ELSE IF cand_level = "bachelor" /\ jd_level = "master" THEN 600
    ELSE IF cand_level = "diploma" /\ jd_level = "bachelor" THEN 500
    ELSE 400

\* a mutant: the level weight and the field weight are swapped
degree_match_swapped(candidate_degree, candidate_stream, jd_required) ==
    IF jd_required = <<>> THEN 1000
    ELSE LET cand_level == normalize_degree(candidate_degree)
             jd_level == normalize_degree(jd_required)
             field_score == compute_field_relevance(candidate_stream, jd_required)
         IN  RoundHalfEven(3 * level_score(cand_level, jd_level) + 7 * field_score, 10)

\* a mutant: an empty requirement is scored like any other
degree_match_no_default(candidate_degree, candidate_stream, jd_required) ==
    LET cand_level == normalize_degree(candidate_degree)
        jd_level == normalize_degree(jd_required)
        field_score == compute_field_relevance(candidate_stream, jd_required)
    IN  RoundHalfEven(7 * level_score(cand_level, jd_level) + 3 * field_score, 10)

\* 0.7 * level_score + 0.3 * field_score is (7 * level + 3 * field) / 10
\* thousandths; round(final, 3) takes it to a whole number of thousandths
degree_match(candidate_degree, candidate_stream, jd_required) ==
    IF jd_required = <<>> THEN 1000
    ELSE LET cand_level == normalize_degree(candidate_degree)
             jd_level == normalize_degree(jd_required)
             field_score == compute_field_relevance(candidate_stream, jd_required)
         IN  RoundHalfEven(7 * level_score(cand_level, jd_level) + 3 * field_score, 10)

(***************************************************************************)
(* experience_match; candidate_exp_years is in hundredths of a year        *)
(***************************************************************************)
\* a mutant: the near-miss band is closed at the wrong end
experience_match_strict(candidate_exp_years, jd_exp) ==
    IF jd_exp = <<>> THEN 1000
    ELSE IF digits_of(jd_exp) = <<>> THEN 1000
    ELSE LET required == int_of(digits_of(jd_exp))
         IN  IF candidate_exp_years > 100 * required THEN 1000
             ELSE IF candidate_exp_years >= 100 * (required - 1) THEN 600
             ELSE 200

\* int("") raises ValueError, which the bare except turns into 1.0
experience_match(candidate_exp_years, jd_exp) ==
    IF jd_exp = <<>> THEN 1000
    ELSE IF digits_of(jd_exp) = <<>> THEN 1000
    ELSE LET required == int_of(digits_of(jd_exp))
         IN  IF candidate_exp_years >= 100 * required THEN 1000
             ELSE IF candidate_exp_years >= 100 * (required - 1) THEN 600
             ELSE 200


(***************************************************************************)
(* JSON values.  A dict is [kind |-> "dict", d |-> function from keys],    *)
(* a list is [kind |-> "list", items |-> sequence]; the records nested in  *)
(* a candidate or job dict (experience, education, skills) are functions   *)
(* whose DOMAIN is the set of keys that are present.                       *)
(***************************************************************************)
Dict(d) == [kind |-> "dict", d |-> d]

List(items) == [kind |-> "list", items |-> items]

Num(n) == [kind |-> "num", n |-> n]

Str(s) == [kind |-> "str", s |-> s]

\* isinstance(v, dict), isinstance(v, list)
is_dict(v) == v.kind = "dict"

is_list(v) == v.kind = "list"

\* d.get(key, default)
get(d, key, default) == IF key \in DOMAIN d THEN d[key] ELSE default

(***************************************************************************)
(* compute_experience_breakdown                                            *)
(***************************************************************************)
T_internship == <<"i","n","t","e","r","n","s","h","i","p">>
T_apprentice == <<"a","p","p","r","e","n","t","i","c","e">>
T_full_time == <<"f","u","l","l"," ","t","i","m","e">>
T_part_time == <<"p","a","r","t"," ","t","i","m","e">>
T_free_lance == <<"f","r","e","e"," ","l","a","n","c","e">>

\* lines 135-140: the experience list of a dict, of the first element of a
\* list, or nothing
experiences_of(candidate) ==
    IF is_dict(candidate) THEN get(candidate.d, "experience", <<>>)
    ELSE IF is_list(candidate)
         THEN IF Len(candidate.items) > 0 /\ is_dict(candidate.items[1])
              THEN get(candidate.items[1].d, "experience", <<>>)
              ELSE <<>>
         ELSE <<>>

\* lines 142-155 for one record: what it adds to a bucket, in half-months
contribution(exp, bucket) ==
    LET months == get(exp, "duration_months", 0)
        exp_type == lower(get(exp, "type", <<>>))
    IN  IF exp_type = T_internship
            THEN IF bucket = "internship" THEN 2 * months ELSE 0
        ELSE IF exp_type = T_apprentice
            THEN IF bucket = "apprentice" THEN 2 * months ELSE 0
        ELSE IF exp_type = T_full_time
            THEN IF bucket = "industry" THEN 2 * months ELSE 0
        ELSE IF exp_type = T_part_time
            THEN IF bucket = "part_time" THEN 2 * months ELSE 0
        ELSE IF exp_type = T_free_lance
            THEN IF bucket = "freelance" THEN 2 * months ELSE 0
        ELSE IF bucket = "apprentice" THEN months ELSE 0

\* the loop of lines 141-155: a bucket's total, in half-months
RECURSIVE bucket_months(_, _)
bucket_months(experiences, bucket) ==
    IF Len(experiences) = 0 THEN 0
    ELSE bucket_months(SubSeq(experiences, 1, Len(experiences) - 1), bucket)
         + contribution(experiences[Len(experiences)], bucket)

\* round(half_months / 2 / 12, 2) in hundredths.  An exact tie is a whole
\* number of eighths, which a float holds exactly, so round() sends it to
\* the even neighbour.
bucket_years(half_months) == RoundHalfEven(half_months * 100, 24)

\* lines 161-171: the weighted sum, as a numerator over 240 years
effective_numerator(ind, int, app, pt, fl) ==
    10 * ind + 5 * int + 6 * app + 4 * pt + 7 * fl

\* round(effective_years, 2) in hundredths.  The float sum is within a few
\* ulps of n / 240, so round() gives the nearest hundredth, and at an exact
\* tie either neighbour, depending on which side the float error fell.
effective_years_rounded(n) ==
    LET q == (n * 100) \div 240
        r == (n * 100) % 240
    IN  IF 2 * r < 240 THEN {q}
        ELSE IF 2 * r > 240 THEN {q + 1}
        ELSE {q, q + 1}

\* a mutant: an unrecognized type counts in full
compute_experience_breakdown_full_weight(candidate) ==
    LET experiences == experiences_of(candidate)
        ind == bucket_months(experiences, "industry")
        int == bucket_months(experiences, "internship")
        app == 2 * bucket_months(experiences, "apprentice")
        pt == bucket_months(experiences, "part_time")
        fl == bucket_months(experiences, "freelance")
    IN  { [internship_years |-> bucket_years(int),
           apprentice_years |-> bucket_years(app),
           industry_years |-> bucket_years(ind),
           part_time_years |-> bucket_years(pt),
           freelance_years |-> bucket_years(fl),
           effective_years |-> e] :
          e \in effective_years_rounded(effective_numerator(ind, int, app, pt, fl)) }

\* the set of results the call can return: one, or two at a rounding tie
compute_experience_breakdown(candidate) ==
    LET experiences == experiences_of(candidate)
        ind == bucket_months(experiences, "industry")
        int == bucket_months(experiences, "internship")
        app == bucket_months(experiences, "apprentice")
        pt == bucket_months(experiences, "part_time")
        fl == bucket_months(experiences, "freelance")
    IN  { [internship_years |-> bucket_years(int),
           apprentice_years |-> bucket_years(app),
           industry_years |-> bucket_years(ind),
           part_time_years |-> bucket_years(pt),
           freelance_years |-> bucket_years(fl),
           effective_years |-> e] :
          e \in effective_years_rounded(effective_numerator(ind, int, app, pt, fl)) }


(***************************************************************************)
(* The graph nodes.  The content of a model response is                    *)
(* [kind |-> "json", value |-> v] when json.loads parses it to v and       *)
(* [kind |-> "text", raw |-> r] when json.loads raises on it.              *)
(***************************************************************************)
Json(v) == [kind |-> "json", value |-> v]

Text(r) == [kind |-> "text", raw |-> r]

\* {**f, **g}: the update of a dict by another
Merge(f, g) ==
    [k \in (DOMAIN f) \cup (DOMAIN g) |-> IF k \in DOMAIN g THEN g[k] ELSE f[k]]

\* lines 202-208 and 235-241
parse_or_degraded(assistant_msg) ==
    IF assistant_msg.kind = "json" THEN assistant_msg.value
    ELSE Dict([error |-> "Invalid JSON returned", raw_output |-> assistant_msg.raw])

\* lines 210-217
stitch_contact(contact, links) ==
    LET profile == get(links, "profile_info", <<>>)
        projects == get(links, "projects", <<>>)
    IN  Merge(contact,
              [email |-> get(profile, "mail", ""),
               phone |-> get(profile, "contact", <<>>),
               linkedin |-> get(profile, "linkedin", ""),
               github |-> IF Len(projects) > 0 THEN projects[1] ELSE "",
               portfolio |-> IF Len(projects) > 1 THEN projects[2] ELSE "",
               other_links |-> projects])

\* the update the node returns
candidate_info_extraction(st, assistant_msg) ==
    LET parsed == parse_or_degraded(assistant_msg)
    IN  IF is_dict(parsed) /\ "contact" \in DOMAIN parsed.d
        THEN [candidate_info_json |->
                 Dict(Merge(parsed.d,
                            [contact |-> stitch_contact(parsed.d.contact,
                                                        st["links_info"])]))]
        ELSE [candidate_info_json |-> parsed]

job_desc_extraction(st, assistant_msg) ==
    [job_info_json |-> parse_or_degraded(assistant_msg)]


(***************************************************************************)
(* candidate_job_matching                                                  *)
(***************************************************************************)
\* a mutant: the skill weight is raised without lowering the others
final_score_heavy_skill(exp_score, edu_score, skill_score) ==
    200 * exp_score + 100 * edu_score + 800 * skill_score

\* a mutant: the education and skill weights are exchanged
final_score_swapped(exp_score, edu_score, skill_score) ==
    200 * exp_score + 700 * edu_score + 100 * skill_score

\* lines 309-313, in millionths: the weights are 0.20, 0.10 and 0.70 and
\* the scores are thousandths
final_score(exp_score, edu_score, skill_score) ==
    200 * exp_score + 100 * edu_score + 700 * skill_score

\* lines 262-273
education_score_of(cand, jd) ==
    LET education == get(cand, "education", <<>>)
        degree == IF Len(education) > 0 THEN get(education[1], "degree", <<>>) ELSE <<>>
        stream == IF Len(education) > 0 THEN get(education[1], "stream", <<>>) ELSE <<>>
    IN  degree_match(degree, stream, get(jd, "education_required", <<>>))

\* lines 276-293
build_payload(cand, jd_obj) ==
    LET skills_obj == get(cand, "skills", <<>>)
        technical == get(skills_obj, "technical", <<>>)
        tools == get(skills_obj, "tools", <<>>)
    IN  [jd_required_skills |-> get(jd_obj, "skills_required", <<>>),
         jd_optional_skills |-> get(jd_obj, "skills_optional", <<>>),
         jd_tools |-> get(jd_obj, "tools_and_technologies", <<>>),
         jd_responsibilities |-> get(jd_obj, "responsibilities", <<>>),
         candidate_skills |-> technical \o tools,
         candidate_tools |-> tools,
         candidate_projects |-> get(cand, "projects", <<>>),
         candidate_experience |-> get(cand, "experience", <<>>),
         candidate_certifications |-> get(cand, "certifications", <<>>)]

\* an exception leaving the node at a source line, and a returned update;
\* requests are the requests the node had issued by then
Raise(line, requests) == [raised |-> TRUE, line |-> line, requests |-> requests]

Return(delta, requests) == [raised |-> FALSE, delta |-> delta, requests |-> requests]

\* lines 302-319: from the grader's response to the returned update
grade_and_combine(exp_score, edu_score, response, requests) ==
    IF response.kind # "json" THEN Raise(302, requests)
    ELSE LET loaded == response.value
             skill_match == IF is_list(loaded)
                            THEN IF Len(loaded.items) > 0 THEN loaded.items[1]
                                 ELSE Dict(<<>>)
                            ELSE loaded
         IN  IF ~ is_dict(skill_match) THEN Raise(306, requests)
             ELSE LET skill_score == get(skill_match.d, "final_skill_match_score", Num(0))
                  IN  IF skill_score.kind # "num" THEN Raise(309, requests)
                      ELSE Return([experience_score |-> exp_score,
                                   education_score |-> edu_score,
                                   skill_match_score |-> skill_match,
                                   final_match_score |->
                                       final_score(exp_score, edu_score, skill_score.n)],
                                  requests)

\* the outcomes of the node on a state and a grader response: the update it
\* returns or the line it raises at (one outcome, or two at a rounding tie
\* of effective_years)
candidate_job_matching(st, response) ==
    IF "candidate_info_json" \notin DOMAIN st THEN {Raise(249, <<>>)}
    ELSE IF "job_info_json" \notin DOMAIN st THEN {Raise(250, <<>>)}
    ELSE LET candidate == st["candidate_info_json"]
             jd == st["job_info_json"]
         IN  IF ~ is_dict(jd) THEN {Raise(258, <<>>)}
             ELSE IF ~ is_dict(candidate) THEN {Raise(262, <<>>)}
             ELSE { grade_and_combine(
                        experience_match(exp_data.effective_years,
                                         get(jd.d, "experience_required", <<>>)),
                        education_score_of(candidate.d, jd.d),
                        response,
                        <<[node |-> "match_score",
                           payload |-> build_payload(candidate.d, jd.d)]>>) :
                    exp_data \in compute_experience_breakdown(candidate) }

(***************************************************************************)
(* The graph of lines 324-332.                                             *)
(***************************************************************************)
\* a mutant: the jd_json node is bypassed
edges_skip_jd ==
    { <<"START", "candidate_json">>,
      <<"candidate_json", "match_score">>,
      <<"jd_json", "match_score">>,
      <<"match_score", "END">> }

edges ==
    { <<"START", "candidate_json">>,
      <<"candidate_json", "jd_json">>,
      <<"jd_json", "match_score">>,
      <<"match_score", "END">> }

\* the node an edge leads to
next_node(n) == CHOOSE m \in {e[2] : e \in edges} : <<n, m>> \in edges


(***************************************************************************)
(* Inputs of direct calls of the helpers.                                  *)
(***************************************************************************)
\* the concatenations of at most n fragments
RECURSIVE Texts(_, _)
Texts(fragments, n) ==
    IF n = 0 THEN {<<>>}
    ELSE LET shorter == Texts(fragments, n - 1)
         IN  shorter \cup {t \o f : t \in shorter, f \in fragments}

DegreeFragments ==
    { <<"B",".","T","e","c","h">>,
      <<"B","E">>,
      <<"B","a","c","h","e","l","o","r">>,
      <<"M",".","T","e","c","h">>,
      <<"M","a","s","t","e","r">>,
      <<"P","h","D">>,
      <<"D","o","c","t","o","r","a","t","e">>,
      <<"D","i","p","l","o","m","a">>,
      <<" ","i","n"," ","C","S">>,
      <<" ","i","n"," ","M","e","c","h","a","n","i","c","a","l">>,
      <<" ","o","f"," ","L","a","w">>,
      <<"H","i","g","h"," ","S","c","h","o","o","l">> }

DegreeTexts == Texts(DegreeFragments, MaxParts)

RequirementFragments ==
    { <<"3">>,
      <<"5">>,
      <<"1">>,
      <<"0">>,
      <<"+"," ","y","e","a","r","s">>,
      <<" ","y","e","a","r","s">>,
      <<"-">>,
      <<"-","5"," ","y","e","a","r","s">>,
      <<"n","o"," ","d","i","g","i","t","s"," ","h","e","r","e">> }

RequirementTexts == Texts(RequirementFragments, MaxParts)

\* effective years, in hundredths: every quarter up to MaxYears and the
\* hundredth just below each whole year
YearValues ==
    {25 * k : k \in 0..(4 * MaxYears)} \cup {100 * k - 1 : k \in 1..MaxYears}

DegreeSamples ==
    { <<>>,
      <<"B",".","T","e","c","h">>,
      <<"B","a","c","h","e","l","o","r">>,
      <<"M",".","T","e","c","h">>,
      <<"M","a","s","t","e","r">>,
      <<"P","h","D">>,
      <<"D","i","p","l","o","m","a">>,
      <<"H","i","g","h"," ","S","c","h","o","o","l">> }

StreamSamples ==
    { <<>>,
      <<"C","o","m","p","u","t","e","r"," ","S","c","i","e","n","c","e">>,
      <<"M","e","c","h","a","n","i","c","a","l">>,
      <<"I","n","f","o","r","m","a","t","i","o","n"," ","T","e","c","h","n","o","l","o","g","y">>,
      <<"L","a","w">>,
      <<"C","S","E">> }

EducationRequirements ==
    { <<>>,
      <<" ">>,
      <<"B","a","c","h","e","l","o","r">>,
      <<"M","a","s","t","e","r">>,
      <<"P","h","D">>,
      <<"D","i","p","l","o","m","a">>,
      <<"A","n","y"," ","d","e","g","r","e","e">> }

ExperienceTypes ==
    { <<"i","n","t","e","r","n","s","h","i","p">>,
      <<"a","p","p","r","e","n","t","i","c","e">>,
      <<"f","u","l","l"," ","t","i","m","e">>,
      <<"p","a","r","t"," ","t","i","m","e">>,
      <<"f","r","e","e"," ","l","a","n","c","e">>,
      <<"c","o","n","t","r","a","c","t">>,
      <<"F","u","l","l"," ","T","i","m","e">>,
      <<" ","f","u","l","l"," ","t","i","m","e"," ">> }

MonthValues == {1, 3, 6, 12, 24}

ExperienceRecords ==
    [type : ExperienceTypes, duration_months : MonthValues]
    \cup { [type |-> T_full_time], [duration_months |-> 12], <<>> }

\* the sequences of at most n experience records
RECURSIVE ExperienceLists(_)
ExperienceLists(n) ==
    IF n = 0 THEN {<<>>}
    ELSE LET shorter == ExperienceLists(n - 1)
         IN  shorter \cup {Append(l, e) : l \in shorter, e \in ExperienceRecords}

DirectCalls ==
    [fn : {"normalize_degree"}, text : DegreeTexts]
    \cup [fn : {"compute_field_relevance"},
          candidate_stream : StreamSamples, jd_field_req : EducationRequirements]
    \cup [fn : {"degree_match"}, candidate_degree : DegreeSamples,
          candidate_stream : StreamSamples, jd_required : EducationRequirements]
    \cup [fn : {"experience_match"},
          candidate_exp_years : YearValues, jd_exp : RequirementTexts]
    \cup [fn : {"compute_experience_breakdown"},
          candidate : {Dict([experience |-> l]) : l \in ExperienceLists(MaxExp)}
                      \cup {Dict(<<>>), List(<<>>),
                            List(<<Dict([experience |-> <<[type |-> T_full_time,
                                                           duration_months |-> 24]>>])>>)}]


(***************************************************************************)
(* Inputs of a graph run: the caller's initial state and the responses of  *)
(* the language model to the three requests.                               *)
(***************************************************************************)
LinksValues ==
    { [profile_info |-> [linkedin |-> "", mail |-> "", medium |-> "",
                         contact |-> <<>>, location |-> ""],
       projects |-> <<>>],
      [profile_info |-> [linkedin |-> "linkedin.com/in/a", mail |-> "a@gmail.com",
                         medium |-> "", contact |-> <<"9876543210">>,
                         location |-> ""],
       projects |-> <<"github.com/a", "a.dev">>] }

InitialStates ==
    [raw_extracted_text : {"resume text"},
     links_info : LinksValues,
     job_description : {"job text"}]

ExperiencePieces ==
    { <<>>,
      [experience |-> <<>>],
      [experience |-> <<[type |-> <<"f","u","l","l"," ","t","i","m","e">>, duration_months |-> 24],
                        [type |-> <<"i","n","t","e","r","n","s","h","i","p">>, duration_months |-> 6]>>],
      [experience |-> <<[type |-> <<"c","o","n","t","r","a","c","t">>, duration_months |-> 1]>>],
      [experience |-> <<[type |-> <<"F","u","l","l"," ","T","i","m","e">>, duration_months |-> 24]>>],
      [experience |-> <<[type |-> T_full_time], [duration_months |-> 12]>>] }

EducationPieces ==
    { <<>>,
      [education |-> <<>>],
      [education |-> <<[degree |-> <<"B",".","T","e","c","h">>,
                        stream |-> <<"C","o","m","p","u","t","e","r"," ","S","c","i","e","n","c","e">>]>>],
      [education |-> <<[degree |-> <<"D","i","p","l","o","m","a">>,
                        stream |-> <<"M","e","c","h","a","n","i","c","a","l">>]>>],
      [education |-> <<[degree |-> <<"B","a","c","h","e","l","o","r">>,
                        stream |-> <<"I","n","f","o","r","m","a","t","i","o","n"," ","T","e","c","h","n","o","l","o","g","y">>]>>] }

SkillsPieces ==
    { <<>>,
      [skills |-> [technical |-> <<"python">>, tools |-> <<"git">>]] }

ContactPieces ==
    { <<>>,
      [contact |-> [email |-> "", phone |-> ""]] }

CandidateDicts ==
    { Merge(Merge(Merge(e, ed), sk), c) :
        e \in ExperiencePieces, ed \in EducationPieces,
        sk \in SkillsPieces, c \in ContactPieces }

\* what the candidate response can be: an object, a sequence holding the
\* object, an empty sequence, or text that is not JSON
CandidateResponses ==
    { Json(Dict(d)) : d \in CandidateDicts }
    \cup { Json(List(<<Dict([experience |-> <<[type |-> <<"f","u","l","l"," ","t","i","m","e">>,
                                               duration_months |-> 24]>>])>>)),
           Json(List(<<>>)),
           Text("not json") }

ExperienceRequiredPieces ==
    { <<>>,
      [experience_required |-> <<>>],
      [experience_required |-> <<"3","+"," ","y","e","a","r","s">>],
      [experience_required |-> <<"2","+"," ","y","e","a","r","s">>],
      [experience_required |-> <<"n","o"," ","d","i","g","i","t","s"," ","h","e","r","e">>] }

EducationRequiredPieces ==
    { <<>>,
      [education_required |-> <<>>],
      [education_required |-> <<"B","a","c","h","e","l","o","r">>],
      [education_required |-> <<"M","a","s","t","e","r">>],
      [education_required |-> <<" ">>] }

JobDicts ==
    { Merge(Merge([skills_required |-> <<"python">>], x), ed) :
        x \in ExperienceRequiredPieces, ed \in EducationRequiredPieces }

JobResponses ==
    { Json(Dict(d)) : d \in JobDicts }
    \cup { Json(List(<<Dict([skills_required |-> <<"python">>])>>)),
           Text("not json") }

\* skill scores the grader may report, in thousandths
GradedScores == {-200, 0, 800, 1000, 1500}

GraderResponses ==
    { Json(Dict([final_skill_match_score |-> Num(n), reasoning |-> "r"])) :
        n \in GradedScores }
    \cup { Json(Dict([reasoning |-> "r"])),
           Json(Dict([final_skill_match_score |-> Str("high")])),
           Json(List(<<Dict([final_skill_match_score |-> Num(800)])>>)),
           Json(List(<<>>)),
           Json(List(<<Num(800)>>)),
           Json(Num(800)),
           Text("not json") }

(***************************************************************************)
(* The state machine.                                                      *)
(***************************************************************************)
NoReturn == [kind |-> "none"]

Returned(v) == [kind |-> "value", value |-> v]

Raised(line) == [kind |-> "raised", line |-> line]

Init ==
    /\ sent = <<>>
    /\ ret = NoReturn
    /\ \/ /\ call = [fn |-> "invoke"]
          /\ pc = "START"
          /\ state \in InitialStates
       \/ /\ call \in DirectCalls
          /\ pc = "call"
          /\ state = <<>>

\* app.invoke(initial_state) enters the graph
Invoke ==
    /\ pc = "START"
    /\ call.fn = "invoke"
    /\ pc' = next_node("START")
    /\ UNCHANGED <<state, sent, call, ret>>

RunCandidateJson ==
    /\ pc = "candidate_json"
    /\ \E assistant_msg \in CandidateResponses :
          state' = Merge(state, candidate_info_extraction(state, assistant_msg))
    /\ sent' = Append(sent, [node |-> "candidate_json"])
    /\ pc' = next_node("candidate_json")
    /\ UNCHANGED <<call, ret>>

RunJdJson ==
    /\ pc = "jd_json"
    /\ \E assistant_msg \in JobResponses :
          state' = Merge(state, job_desc_extraction(state, assistant_msg))
    /\ sent' = Append(sent, [node |-> "jd_json"])
    /\ pc' = next_node("jd_json")
    /\ UNCHANGED <<call, ret>>

RunMatchScore ==
    /\ pc = "match_score"
    /\ \E response \in GraderResponses :
       \E outcome \in candidate_job_matching(state, response) :
          /\ sent' = sent \o outcome.requests
          /\ IF outcome.raised
             THEN /\ pc' = "raised"
                  /\ ret' = Raised(outcome.line)
                  /\ UNCHANGED state
             ELSE /\ pc' = next_node("match_score")
                  /\ state' = Merge(state, outcome.delta)
                  /\ UNCHANGED ret
    /\ UNCHANGED call

CallNormalizeDegree ==
    /\ pc = "call"
    /\ call.fn = "normalize_degree"
    /\ ret' = Returned(normalize_degree(call.text))
    /\ pc' = "returned"
    /\ UNCHANGED <<state, sent, call>>

CallComputeFieldRelevance ==
    /\ pc = "call"
    /\ call.fn = "compute_field_relevance"
    /\ ret' = Returned(compute_field_relevance(call.candidate_stream, call.jd_field_req))
    /\ pc' = "returned"
    /\ UNCHANGED <<state, sent, call>>

CallDegreeMatch ==
    /\ pc = "call"
    /\ call.fn = "degree_match"
    /\ ret' = Returned(degree_match(call.candidate_degree, call.candidate_stream,
                                    call.jd_required))
    /\ pc' = "returned"
    /\ UNCHANGED <<state, sent, call>>

CallExperienceMatch ==
    /\ pc = "call"
    /\ call.fn = "experience_match"
    /\ ret' = Returned(experience_match(call.candidate_exp_years, call.jd_exp))
    /\ pc' = "returned"
    /\ UNCHANGED <<state, sent, call>>

CallComputeExperienceBreakdown ==
    /\ pc = "call"
    /\ call.fn = "compute_experience_breakdown"
    /\ \E result \in compute_experience_breakdown(call.candidate) :
          ret' = Returned(result)
    /\ pc' = "returned"
    /\ UNCHANGED <<state, sent, call>>

Next ==
    \/ Invoke
    \/ RunCandidateJson
    \/ RunJdJson
    \/ RunMatchScore
    \/ CallNormalizeDegree
    \/ CallComputeFieldRelevance
    \/ CallDegreeMatch
    \/ CallExperienceMatch
    \/ CallComputeExperienceBreakdown

Spec == Init /\ [][Next]_vars

TypeOK ==
    /\ pc \in {"START", "candidate_json", "jd_json", "match_score", "END",
               "raised", "call", "returned"}
    /\ ret.kind \in {"none", "value", "raised"}


(***************************************************************************)
(* Properties.                                                             *)
(***************************************************************************)
InGraph == call.fn = "invoke"

ReturnedFrom(fn) == pc = "returned" /\ call.fn = fn

Populated(key) == key \in DOMAIN state

\* C1: in a graph run the nodes run in the order candidate_json, jd_json,
\* match_score, one step each and none twice: match_score starts only once
\* candidate_info_json and job_info_json are both in the state, and nothing
\* runs after match_score has returned or raised.
C1_StageOrder ==
    [][ InGraph =>
          /\ pc = "START" => pc' = "candidate_json"
          /\ pc = "candidate_json" =>
                /\ pc' = "jd_json"
                /\ "candidate_info_json" \in DOMAIN state'
                /\ sent' = <<[node |-> "candidate_json"]>>
          /\ pc = "jd_json" =>
                /\ pc' = "match_score"
                /\ "candidate_info_json" \in DOMAIN state'
                /\ "job_info_json" \in DOMAIN state'
                /\ sent' = <<[node |-> "candidate_json"], [node |-> "jd_json"]>>
          /\ pc = "match_score" =>
                /\ Populated("candidate_info_json")
                /\ Populated("job_info_json")
                /\ pc' \in {"END", "raised"}
                /\ pc' = "END" =>
                      /\ Len(sent') = 3
                      /\ sent'[3].node = "match_score"
                      /\ "final_match_score" \in DOMAIN state'
          /\ pc \in {"END", "raised"} => FALSE ]_vars

C1_Witness ==
    /\ InGraph
    /\ pc = "END"
    /\ Len(sent) = 3
    /\ Populated("candidate_info_json")
    /\ Populated("job_info_json")
    /\ Populated("final_match_score")

\* the skill score the matching stage read from the grader object it kept
SkillScoreUsed ==
    IF "final_skill_match_score" \in DOMAIN state["skill_match_score"].d
    THEN state["skill_match_score"].d["final_skill_match_score"].n
    ELSE 0

\* C2: the final_match_score a run ends with is 0.20 * experience_score +
\* 0.10 * education_score + 0.70 * the skill score, unclamped (in
\* millionths: 200, 100 and 700 times the thousandths); (1.0, 1.0, 0)
\* gives 0.30 and (1.0, 1.0, 1.0) gives 1.0.
C2_WeightedSum ==
    (InGraph /\ pc = "END") =>
        LET e == state["experience_score"]
            d == state["education_score"]
            k == SkillScoreUsed
            f == state["final_match_score"]
        IN  /\ f = 200 * e + 100 * d + 700 * k
            /\ (e = 1000 /\ d = 1000 /\ k = 0) => f = 300000
            /\ (e = 1000 /\ d = 1000 /\ k = 1000) => f = 1000000

C2_Witness ==
    /\ InGraph
    /\ pc = "END"
    /\ state["experience_score"] = 1000
    /\ state["education_score"] = 1000
    /\ SkillScoreUsed = 0
    /\ state["final_match_score"] = 300000

\* C3 as stated: every bundle has experience_score, education_score and
\* final_match_score in [0,1], whatever the grader reported.
C3_AllScoresInUnitInterval ==
    (InGraph /\ pc = "END") =>
        /\ state["experience_score"] \in 0..1000
        /\ state["education_score"] \in 0..1000
        /\ state["final_match_score"] \in 0..1000000

\* C3, amended: experience_score and education_score of every bundle lie
\* in [0,1], and final_match_score lies in [0,1] whenever the skill score
\* read from the grader lies in [0,1].
C3_ScoresInUnitInterval ==
    (InGraph /\ pc = "END") =>
        /\ state["experience_score"] \in 0..1000
        /\ state["education_score"] \in 0..1000
        /\ SkillScoreUsed \in 0..1000 => state["final_match_score"] \in 0..1000000

C3_Witness ==
    /\ InGraph
    /\ pc = "END"
    /\ SkillScoreUsed = 1000
    /\ state["final_match_score"] = 1000000

DigitChars == {"0", "1", "2", "3", "4", "5", "6", "7", "8", "9"}

HasDigit(s) == \E i \in 1..Len(s) : s[i] \in DigitChars

\* C4: a requirement that is absent, empty or (for experience) without a
\* digit scores 1.0 whatever the candidate: experience_match returns 1.0
\* for every years value, degree_match returns 1.0 for every degree and
\* stream, and a run whose job record lacks the requirement ends with the
\* sub-score 1.0.
C4_NoRequirementScoresOne ==
    /\ (ReturnedFrom("experience_match") /\ ~ HasDigit(call.jd_exp)) =>
          ret.value = 1000
    /\ (ReturnedFrom("degree_match") /\ call.jd_required = <<>>) =>
          ret.value = 1000
    /\ (InGraph /\ pc = "END") =>
          LET jd == state["job_info_json"].d
          IN  /\ ("experience_required" \notin DOMAIN jd
                  \/ ~ HasDigit(jd["experience_required"])) =>
                    state["experience_score"] = 1000
              /\ ("education_required" \notin DOMAIN jd
                  \/ jd["education_required"] = <<>>) =>
                    state["education_score"] = 1000

C4_Witness ==
    /\ ReturnedFrom("experience_match")
    /\ call.jd_exp = <<"n","o"," ","d","i","g","i","t","s"," ","h","e","r","e">>
    /\ call.candidate_exp_years = 0
    /\ ret.value = 1000

\* C5: with a requirement of r years, experience_match returns 1.0 when
\* y >= r, 0.6 when r - 1 <= y < r and 0.2 when y < r - 1 (y in hundredths
\* of a year); r is the number the requirement's digits spell.
C5_ExperienceBands ==
    (ReturnedFrom("experience_match") /\ HasDigit(call.jd_exp)) =>
        LET y == call.candidate_exp_years
            r == int_of(digits_of(call.jd_exp))
        IN  /\ y >= 100 * r => ret.value = 1000
            /\ (100 * (r - 1) <= y /\ y < 100 * r) => ret.value = 600
            /\ y < 100 * (r - 1) => ret.value = 200
            /\ ret.value \in {1000, 600, 200}
            /\ call.jd_exp = <<"3","+"," ","y","e","a","r","s">> =>
                  /\ y = 300 => ret.value = 1000
                  /\ y = 200 => ret.value = 600
                  /\ y = 50 => ret.value = 200

C5_Witness ==
    /\ ReturnedFrom("experience_match")
    /\ call.jd_exp = <<"3","+"," ","y","e","a","r","s">>
    /\ call.candidate_exp_years = 200
    /\ ret.value = 600


\* the level table of the specification
LevelScoreTable(cand_level, jd_level) ==
    CASE cand_level = jd_level -> 1000
      [] cand_level = "master" /\ jd_level = "bachelor" -> 1000
      [] cand_level = "bachelor" /\ jd_level = "master" -> 600
      [] cand_level = "diploma" /\ jd_level = "bachelor" -> 500
      [] OTHER -> 400

HasFieldKeyword(stream) ==
    \E term \in RELEVANT_FIELDS : Contains(lower(stream), term)

IsBlank(s) == \A i \in 1..Len(s) : s[i] \in Whitespace

\* 0.7 * level + 0.3 * field, both in thousandths, rounded to thousandths
\* (the sum is a whole number of thousandths for every table entry)
WeightedEducation(level, field) == (7 * level + 3 * field) \div 10

\* C6 as stated: for every non-empty requirement degree_match returns
\* 0.7 * levelScore + 0.3 * fieldRelevance with fieldRelevance 0.9 or 0.5.
C6_DegreeMatchFormula ==
    (ReturnedFrom("degree_match") /\ call.jd_required # <<>>) =>
        ret.value =
            WeightedEducation(
                LevelScoreTable(normalize_degree(call.candidate_degree),
                                normalize_degree(call.jd_required)),
                IF HasFieldKeyword(call.candidate_stream) THEN 900 ELSE 500)

\* C6, amended: for every non-empty requirement degree_match returns
\* 0.7 * levelScore + 0.3 * fieldRelevance rounded to 3 decimals, with the
\* level table of the claim, and fieldRelevance 1.0 when the requirement is
\* only whitespace, otherwise 0.9 when the stream contains a technical-field
\* keyword and 0.5 when it does not; B.Tech / Computer Science against
\* Bachelor gives 0.97 and Diploma / Mechanical against Bachelor gives 0.5.
C6_DegreeMatchFormulaBlankAware ==
    (ReturnedFrom("degree_match") /\ call.jd_required # <<>>) =>
        /\ ret.value =
              WeightedEducation(
                  LevelScoreTable(normalize_degree(call.candidate_degree),
                                  normalize_degree(call.jd_required)),
                  IF IsBlank(call.jd_required) THEN 1000
                  ELSE IF HasFieldKeyword(call.candidate_stream) THEN 900
                  ELSE 500)
        /\ (/\ call.candidate_degree = <<"B",".","T","e","c","h">>
            /\ call.candidate_stream = <<"C","o","m","p","u","t","e","r"," ","S","c","i","e","n","c","e">>
            /\ call.jd_required = <<"B","a","c","h","e","l","o","r">>) => ret.value = 970
        /\ (/\ call.candidate_degree = <<"D","i","p","l","o","m","a">>
            /\ call.candidate_stream = <<"M","e","c","h","a","n","i","c","a","l">>
            /\ call.jd_required = <<"B","a","c","h","e","l","o","r">>) => ret.value = 500

C6_Witness ==
    /\ ReturnedFrom("degree_match")
    /\ call.candidate_degree = <<"B","a","c","h","e","l","o","r">>
    /\ call.candidate_stream = <<"L","a","w">>
    /\ call.jd_required = <<" ">>
    /\ ret.value = 580

ContainsAny(text, synonyms) == \E x \in synonyms : Contains(lower(text), x)

\* the synonyms the claim names
NamedBachelor ==
    { <<"b",".","t","e","c","h">>, <<"b","t","e","c","h">>,
      <<"b",".","e">>, <<"b","a","c","h","e","l","o","r">> }

NamedPhd == { <<"p","h","d">>, <<"d","o","c","t","o","r">>, <<"d","o","c","t","o","r","a","t","e">> }

NamedDiploma == { <<"d","i","p","l","o","m","a">> }

AllSynonyms ==
    BachelorSynonyms \cup MasterSynonyms \cup PhdSynonyms \cup {DiplomaSynonym}

\* C7 as stated: a text containing a bachelor synonym normalizes to
\* bachelor, one containing a phd synonym to phd, one containing "diploma"
\* to diploma, and an empty text or one matching no synonym to unknown.
C7_NormalizeBySynonym ==
    ReturnedFrom("normalize_degree") =>
        /\ ContainsAny(call.text, NamedBachelor) => ret.value = "bachelor"
        /\ ContainsAny(call.text, NamedPhd) => ret.value = "phd"
        /\ ContainsAny(call.text, NamedDiploma) => ret.value = "diploma"
        /\ ~ ContainsAny(call.text, AllSynonyms) => ret.value = "unknown"

\* C7, amended: the lists are consulted in the order bachelor, master, phd,
\* diploma and the first that matches decides.  A text containing a
\* bachelor synonym normalizes to bachelor; one containing a phd synonym
\* normalizes to phd unless it contains a bachelor or master synonym; one
\* containing "diploma" normalizes to diploma unless it contains a
\* bachelor, master or phd synonym; an empty text or one matching no
\* synonym normalizes to unknown.
C7_NormalizeFirstMatch ==
    ReturnedFrom("normalize_degree") =>
        /\ ContainsAny(call.text, NamedBachelor) => ret.value = "bachelor"
        /\ (/\ ContainsAny(call.text, NamedPhd)
            /\ ~ ContainsAny(call.text, BachelorSynonyms \cup MasterSynonyms)) =>
              ret.value = "phd"
        /\ (/\ ContainsAny(call.text, NamedDiploma)
            /\ ~ ContainsAny(call.text,
                             BachelorSynonyms \cup MasterSynonyms \cup PhdSynonyms)) =>
              ret.value = "diploma"
        /\ ~ ContainsAny(call.text, AllSynonyms) => ret.value = "unknown"
        /\ call.text = <<>> => ret.value = "unknown"

C7_Witness ==
    /\ ReturnedFrom("normalize_degree")
    /\ call.text = <<"P","h","D"," ","i","n"," ","C","S">>
    /\ ret.value = "phd"

\* the months of the records of a list whose lower-cased type is in types
RECURSIVE MonthsOfTypes(_, _)
MonthsOfTypes(records, types) ==
    IF records = <<>> THEN 0
    ELSE LET rec == Head(records)
             t == IF "type" \in DOMAIN rec THEN lower(rec["type"]) ELSE <<>>
             m == IF "duration_months" \in DOMAIN rec THEN rec["duration_months"] ELSE 0
         IN  (IF t \in types THEN m ELSE 0) + MonthsOfTypes(Tail(records), types)

\* the months of the records whose type is none of the five
RECURSIVE MonthsOfOtherTypes(_)
MonthsOfOtherTypes(records) ==
    IF records = <<>> THEN 0
    ELSE LET rec == Head(records)
             t == IF "type" \in DOMAIN rec THEN lower(rec["type"]) ELSE <<>>
             m == IF "duration_months" \in DOMAIN rec THEN rec["duration_months"] ELSE 0
         IN  (IF t \in {T_internship, T_apprentice, T_full_time, T_part_time,
                        T_free_lance}
              THEN 0 ELSE m) + MonthsOfOtherTypes(Tail(records))

\* twice the months of the apprentice bucket: every apprentice month, and
\* half of every month of an unrecognized type
ApprenticeHalfMonths(records) ==
    2 * MonthsOfTypes(records, {T_apprentice}) + MonthsOfOtherTypes(records)

\* 240 times the weighted sum of the bucket years
WeightedYears240(records) ==
    20 * MonthsOfTypes(records, {T_full_time})
    + 10 * MonthsOfTypes(records, {T_internship})
    + 6 * ApprenticeHalfMonths(records)
    + 8 * MonthsOfTypes(records, {T_part_time})
    + 14 * MonthsOfTypes(records, {T_free_lance})

BreakdownOfRecords ==
    /\ ReturnedFrom("compute_experience_breakdown")
    /\ call.candidate.kind = "dict"
    /\ "experience" \in DOMAIN call.candidate.d

\* C8 as stated: the call returns each bucket's months divided by 12 and
\* effective_years equal to the weighted sum of the bucket years.
C8_BreakdownExact ==
    BreakdownOfRecords =>
        LET records == call.candidate.d["experience"]
        IN  /\ 12 * ret.value.industry_years
                  = 100 * MonthsOfTypes(records, {T_full_time})
            /\ 12 * ret.value.internship_years
                  = 100 * MonthsOfTypes(records, {T_internship})
            /\ 24 * ret.value.apprentice_years
                  = 100 * ApprenticeHalfMonths(records)
            /\ 240 * ret.value.effective_years = 100 * WeightedYears240(records)

\* |a / b - h| <= 1/2: h is a nearest whole number to a / b
Nearest(h, a, b) == 2 * (a - h * b) <= b /\ 2 * (h * b - a) <= b

\* C8, amended: the call sums duration_months per recognized category, adds
\* 0.5 * duration_months of every record of an unrecognized type to the
\* apprentice bucket, divides each bucket by 12 and returns it rounded to 2
\* decimals, and returns effective_years = industry * 1.0 + internship * 0.5
\* + apprentice * 0.6 + part_time * 0.4 + freelance * 0.7 of the unrounded
\* bucket years, rounded to 2 decimals; 24 months full time plus 6 months
\* internship give 2.25, and 12 months of type "contract" give
\* apprentice_years 0.5.
C8_BreakdownRounded ==
    BreakdownOfRecords =>
        LET records == call.candidate.d["experience"]
        IN  /\ Nearest(ret.value.industry_years,
                       100 * MonthsOfTypes(records, {T_full_time}), 12)
            /\ Nearest(ret.value.internship_years,
                       100 * MonthsOfTypes(records, {T_internship}), 12)
            /\ Nearest(ret.value.part_time_years,
                       100 * MonthsOfTypes(records, {T_part_time}), 12)
            /\ Nearest(ret.value.freelance_years,
                       100 * MonthsOfTypes(records, {T_free_lance}), 12)
            /\ Nearest(ret.value.apprentice_years,
                       100 * ApprenticeHalfMonths(records), 24)
            /\ Nearest(ret.value.effective_years,
                       100 * WeightedYears240(records), 240)
            /\ records = <<[type |-> T_full_time, duration_months |-> 24],
                           [type |-> T_internship, duration_months |-> 6]>> =>
                  ret.value.effective_years = 225
            /\ records = <<[type |-> <<"c","o","n","t","r","a","c","t">>, duration_months |-> 12]>> =>
                  ret.value.apprentice_years = 50

C8_Witness ==
    /\ BreakdownOfRecords
    /\ call.candidate.d["experience"]
          = <<[type |-> T_full_time, duration_months |-> 24],
              [type |-> T_internship, duration_months |-> 6]>>
    /\ ret.value.effective_years = 225
    /\ ret.value.industry_years = 200
    /\ ret.value.internship_years = 50

IsDegraded(key) ==
    /\ Populated(key)
    /\ state[key].kind = "dict"
    /\ "error" \in DOMAIN state[key].d

\* C9: a run in which the candidate or the job response failed to parse
\* holds the degraded record {error: "Invalid JSON returned", raw_output}
\* and does not fail: it goes on to match_score and ends with a bundle.
C9_ParseFailureNotFatal ==
    (InGraph /\ (IsDegraded("candidate_info_json") \/ IsDegraded("job_info_json"))) =>
        /\ \A key \in {"candidate_info_json", "job_info_json"} :
              IsDegraded(key) =>
                 state[key].d = [error |-> "Invalid JSON returned",
                                 raw_output |-> "not json"]
        /\ pc # "raised"

\* C10: whatever the grader returns, match_score does not raise once it has
\* the grader's response (lines 302-313), and the bundle it returns holds
\* the grader object.
C10_GraderOutputNotFatal ==
    InGraph =>
        /\ pc = "raised" => ret.line \notin {302, 306, 309}
        /\ pc = "END" => state["skill_match_score"].kind = "dict"


\* the first maximal run of digit characters of a text that has a digit
FirstDigitRun(s) ==
    LET first == CHOOSE i \in 1..Len(s) :
                    /\ s[i] \in DigitChars
                    /\ \A j \in 1..(i - 1) : s[j] \notin DigitChars
        last == CHOOSE k \in first..Len(s) :
                    /\ \A j \in first..k : s[j] \in DigitChars
                    /\ (k = Len(s) \/ s[k + 1] \notin DigitChars)
    IN  SubSeq(s, first, last)

\* C11: for a requirement that contains a digit, the required year count of
\* experience_match is the number spelled by the first maximal run of
\* digits, later digits being ignored: the result is 1.0 / 0.6 / 0.2 by the
\* bands around that number, so "3-5 years" requires 3 years.
C11_FirstDigitRunIsRequired ==
    (ReturnedFrom("experience_match") /\ HasDigit(call.jd_exp)) =>
        LET y == call.candidate_exp_years
            r == int_of(FirstDigitRun(call.jd_exp))
        IN  ret.value = IF y >= 100 * r THEN 1000
                        ELSE IF y >= 100 * (r - 1) THEN 600
                        ELSE 200


RecognizedTypes ==
    {T_internship, T_apprentice, T_full_time, T_part_time, T_free_lance}

\* a type string with its case and its surrounding whitespace removed
CanonicalType(rec) ==
    IF "type" \in DOMAIN rec THEN strip(lower(rec["type"])) ELSE <<>>

\* the months of the records whose canonical type is in types
RECURSIVE MonthsOfCanonicalTypes(_, _)
MonthsOfCanonicalTypes(records, types) ==
    IF records = <<>> THEN 0
    ELSE LET rec == Head(records)
             m == IF "duration_months" \in DOMAIN rec THEN rec["duration_months"] ELSE 0
         IN  (IF CanonicalType(rec) \in types THEN m ELSE 0)
             + MonthsOfCanonicalTypes(Tail(records), types)

\* the months of the records whose canonical type is none of the five
RECURSIVE MonthsOfUnrecognized(_)
MonthsOfUnrecognized(records) ==
    IF records = <<>> THEN 0
    ELSE LET rec == Head(records)
             m == IF "duration_months" \in DOMAIN rec THEN rec["duration_months"] ELSE 0
         IN  (IF CanonicalType(rec) \in RecognizedTypes THEN 0 ELSE m)
             + MonthsOfUnrecognized(Tail(records))

\* C12: the bucket a record is counted in does not depend on the letter
\* case of its type nor on whitespace around it: every case variant and
\* every padded variant of a recognized type (" Full Time ") is summed in
\* the bucket of the canonical string with its full weight, and only types
\* that are unrecognized after lower-casing and trimming get the 0.5 weight.
C12_TypeCaseAndPaddingInvariant ==
    BreakdownOfRecords =>
        LET records == call.candidate.d["experience"]
        IN  /\ Nearest(ret.value.industry_years,
                       100 * MonthsOfCanonicalTypes(records, {T_full_time}), 12)
            /\ Nearest(ret.value.internship_years,
                       100 * MonthsOfCanonicalTypes(records, {T_internship}), 12)
            /\ Nearest(ret.value.part_time_years,
                       100 * MonthsOfCanonicalTypes(records, {T_part_time}), 12)
            /\ Nearest(ret.value.freelance_years,
                       100 * MonthsOfCanonicalTypes(records, {T_free_lance}), 12)
            /\ Nearest(ret.value.apprentice_years,
                       100 * (2 * MonthsOfCanonicalTypes(records, {T_apprentice})
                              + MonthsOfUnrecognized(records)), 24)


\* the candidate shapes the extraction stage may hand over: the record, or
\* a sequence whose first element is the record
CandidateRecordOrSequence ==
    /\ Populated("candidate_info_json")
    /\ \/ is_dict(state["candidate_info_json"])
       \/ /\ is_list(state["candidate_info_json"])
          /\ Len(state["candidate_info_json"].items) > 0
          /\ is_dict(state["candidate_info_json"].items[1])

\* C13: with the candidate given as a record or as a sequence whose first
\* element is the record, whatever optional fields are missing, and the
\* job given as a record, whatever requirement fields are missing,
\* match_score does not raise on these inputs: it gets as far as the
\* grader's response (the only raises left are those of lines 302-313 on
\* the grader's output), and a run that ends holds the ScoreBundle.
C13_MatchingToleratesCandidateShapes ==
    (/\ InGraph
     /\ CandidateRecordOrSequence
     /\ Populated("job_info_json")
     /\ is_dict(state["job_info_json"])) =>
        /\ pc = "raised" => ret.line \in {302, 306, 309}
        /\ pc = "END" =>
              /\ Populated("experience_score")
              /\ Populated("education_score")
              /\ Populated("skill_match_score")
              /\ Populated("final_match_score")

====
